---- MODULE Spec2Model ----
(***************************************************************************)
(* A model of auto_commit_from_patchlist.py: the ledger parser, the        *)
(* repository resolver, the per-repository grouping of CRs by shared       *)
(* files, the [i/n] labelling of commit plans, the commit message          *)
(* composer and the commit executor.                                       *)
(*                                                                         *)
(* Strings are sequences of one-character strings, compared as Python      *)
(* compares str values (by code point).  CR identifiers are naturals; the  *)
(* order < on them stands for the order of the identifier strings.         *)
(***************************************************************************)
EXTENDS Integers, Sequences, FiniteSets, TLC

VARIABLES
    pc,            \* position of the pipeline / of perform_commits
    project_map,   \* [order: insertion order of projects, files: proj -> cr -> set of files]
    commit_plans,  \* list of plans, as find_cr_components_per_project returns it
    cr_info,       \* cr -> [patch_type, severity, description_first, description_full]
    summary,       \* the titles perform_commits prints in its plan summary
    dry_run,       \* perform_commits' dry_run argument
    idx,           \* the plan the live loop is at (1-based)
    fi,            \* the file of plan idx the git-add loop is at (1-based)
    message,       \* title and body rendered for plan idx by the live loop
    index,         \* repository -> the files staged in its git index
    dir_exists,    \* repository -> os.path.isdir(repo_dir)
    seen,          \* plan -> file -> what the git-add loop did with the file
    outcome,       \* plan -> how the live loop left the plan
    processed,     \* the plans the live loop has finished with, in order
    tmp_files,     \* the temporary message files that exist
    calls,         \* external commands and temp files of this perform_commits call
    preview,       \* plan -> the message a dry run printed for it
    passed,        \* plan -> the message git commit -F was given for it
    commits,       \* the commits this perform_commits call created
    git_dirs,      \* the directories that hold a .git marker
    parsed,        \* the records build_project_groups is given
    bi,            \* the record the loop of build_project_groups is at (1-based)
    git_cache,     \* directory -> project root or NoProject
    resolved,      \* file -> what find_git_project_for_file returned for it
    content,       \* the lines of the ledger file
    entries,       \* the entries parse_patch_list splits the ledger into
    pi,            \* the entry the loop of parse_patch_list is at (1-based)
    results,       \* the records parse_patch_list has appended
    origin         \* for every record of results, the block it was parsed from

buildVars == << git_dirs, parsed, bi, git_cache, resolved >>

parseVars == << content, entries, pi, results, origin >>

planVars == << project_map, commit_plans, cr_info, summary >>

execVars == << dry_run, idx, fi, message, index, dir_exists, seen, outcome, processed,
               tmp_files, calls, preview, passed, commits >>

\* ------------------------------------------------------------------------
\* Strings and sorting
\* ------------------------------------------------------------------------

\* Code point of a character (ord()).
Ord(c) ==
    CASE c = "." -> 46
      [] c = "/" -> 47
      [] c = "a" -> 97
      [] c = "b" -> 98
      [] c = "g" -> 103
      [] c = "h" -> 104
      [] c = "x" -> 120
      [] c = "y" -> 121
      [] c = "z" -> 122

\* s < t for two strings (str.__lt__): lexicographic by code point.
StrLess(s, t) ==
    \E k \in 1..(Len(s) + 1) :
        /\ \A j \in 1..(k - 1) : j <= Len(t) /\ s[j] = t[j]
        /\ \/ k = Len(s) + 1 /\ k <= Len(t)
           \/ k <= Len(s) /\ k <= Len(t) /\ Ord(s[k]) < Ord(t[k])

\* sorted(S) for a set of strings.
RECURSIVE SortedStrs(_)
SortedStrs(S) ==
    IF S = {} THEN <<>>
    ELSE LET m == CHOOSE x \in S : \A y \in S \ {x} : StrLess(x, y)
         IN  <<m>> \o SortedStrs(S \ {m})

\* sorted(S) for a set of CR identifiers.
RECURSIVE SortedCrs(_)
SortedCrs(S) ==
    IF S = {} THEN <<>>
    ELSE LET m == CHOOSE x \in S : \A y \in S : x <= y
         IN  <<m>> \o SortedCrs(S \ {m})

SeqToSet(s) == { s[i] : i \in 1..Len(s) }

\* ------------------------------------------------------------------------
\* find_cr_components_per_project
\* ------------------------------------------------------------------------

\* file_to_crs[f]: the CRs of one project that list file f.
FileToCrs(cr_files, f) == { c \in DOMAIN cr_files : f \in cr_files[c] }

\* adj: two CRs are adjacent when some file lists both.
Adj(cr_files) ==
    [ a \in DOMAIN cr_files |->
        { b \in DOMAIN cr_files \ {a} :
            \E f \in cr_files[a] :
                /\ Cardinality(FileToCrs(cr_files, f)) > 1
                /\ b \in FileToCrs(cr_files, f) } ]

\* The deque loop of one component, neighbours enqueued only from the start
\* node (a traversal that stops after one level).
RECURSIVE BfsOneLevel(_, _, _, _)
BfsOneLevel(adj, dq, visited, component) ==
    IF dq = <<>> THEN component
    ELSE LET node == Head(dq)
             new  == IF component = <<>> THEN adj[node] \ visited ELSE {}
         IN  BfsOneLevel(adj, Tail(dq) \o SortedCrs(new), visited \cup new,
                         Append(component, node))

\* The deque loop of one component: pop a node, append it, enqueue and mark
\* its unvisited neighbours.  The set iteration order of adj[node] is free in
\* Python; the component is sorted afterwards, so any order gives the same plan.
RECURSIVE Bfs(_, _, _, _)
Bfs(adj, dq, visited, component) ==
    IF dq = <<>> THEN component
    ELSE LET node == Head(dq)
             new  == adj[node] \ visited
         IN  Bfs(adj, Tail(dq) \o SortedCrs(new), visited \cup new,
                 Append(component, node))

\* A plan that records the per-CR files of the first CR of the group only.
MakePlanFirstOnly(proj, cr_files, component) ==
    LET component_sorted == SortedCrs(SeqToSet(component))
        first == { component_sorted[1] }
    IN  [ project    |-> proj,
          group_crs  |-> component_sorted,
          all_files  |-> SortedStrs(UNION { cr_files[c] : c \in SeqToSet(component) }),
          cr_files   |-> [ c \in first |-> SortedStrs(cr_files[c]) ],
          repo_index |-> 0,
          repo_total |-> 0 ]

\* The plan of one component.  repo_index = repo_total = 0 stands for the keys
\* being absent (plan.get(...) is None).
MakePlan(proj, cr_files, component) ==
    LET component_sorted == SortedCrs(SeqToSet(component))
    IN  [ project    |-> proj,
          group_crs  |-> component_sorted,
          all_files  |-> SortedStrs(UNION { cr_files[c] : c \in SeqToSet(component) }),
          cr_files   |-> [ c \in SeqToSet(component) |-> SortedStrs(cr_files[c]) ],
          repo_index |-> 0,
          repo_total |-> 0 ]

\* The loop over the sorted cr_ids of one project, skipping visited ones.
RECURSIVE ProjectPlans(_, _, _, _)
ProjectPlans(proj, cr_files, cr_ids, visited) ==
    IF cr_ids = <<>> THEN <<>>
    ELSE LET cr == Head(cr_ids)
         IN  IF cr \in visited
             THEN ProjectPlans(proj, cr_files, Tail(cr_ids), visited)
             ELSE LET component == Bfs(Adj(cr_files), <<cr>>, visited \cup {cr}, <<>>)
                  IN  <<MakePlan(proj, cr_files, component)>>
                      \o ProjectPlans(proj, cr_files, Tail(cr_ids),
                                      visited \cup SeqToSet(component))

\* The loop over project_map.items(), in insertion order.
RECURSIVE PlansOf(_, _)
PlansOf(order, files) ==
    IF order = <<>> THEN <<>>
    ELSE LET proj == Head(order)
         IN  ProjectPlans(proj, files[proj], SortedCrs(DOMAIN files[proj]), {})
             \o PlansOf(Tail(order), files)

find_cr_components_per_project(pm) == PlansOf(pm.order, pm.files)

\* ------------------------------------------------------------------------
\* assign_repo_index
\* ------------------------------------------------------------------------

\* The indices of the plans whose group_crs tuple is that of plan i.
SameGroup(plans, i) ==
    { j \in 1..Len(plans) : plans[j].group_crs = plans[i].group_crs }

\* Positions given in list order (idxs left unsorted).
PositionUnsorted(plans, i) ==
    1 + Cardinality({ j \in SameGroup(plans, i) : j < i })

\* The position of plan i after idxs.sort(key=project): list.sort is stable,
\* so plans of equal project keep their list order.
Position(plans, i) ==
    1 + Cardinality({ j \in SameGroup(plans, i) :
                        \/ StrLess(plans[j].project, plans[i].project)
                        \/ plans[j].project = plans[i].project /\ j < i })

assign_repo_index(plans) ==
    [ i \in 1..Len(plans) |->
        [ plans[i] EXCEPT !.repo_index = Position(plans, i),
                          !.repo_total = Cardinality(SameGroup(plans, i)) ] ]

\* ------------------------------------------------------------------------
\* Commit message composer.  A line of text is a sequence of tokens.
\* ------------------------------------------------------------------------

SecurityPrefix == "[Google Security Patch]"

\* Tokens that match \[[^\]]+\].
BracketGroups == { SecurityPrefix, "[CVE-2024-0001]" }

RECURSIVE LStrip(_)
LStrip(line) ==
    IF line # <<>> /\ Head(line) = " " THEN LStrip(Tail(line)) ELSE line

RECURSIVE RStrip(_)
RStrip(line) ==
    IF line # <<>> /\ line[Len(line)] = " "
    THEN RStrip(SubSeq(line, 1, Len(line) - 1))
    ELSE line

Strip(line) == LStrip(RStrip(line))

transform_description_for_title(desc_first) ==
    IF desc_first = <<>> THEN <<>>
    ELSE LET after == IF Head(desc_first) = SecurityPrefix
                      THEN LStrip(Tail(desc_first)) ELSE <<>>
         IN  IF after # <<>> /\ Head(after) \in BracketGroups
             THEN <<SecurityPrefix, " ">> \o Strip(Tail(after))
             ELSE desc_first

\* cr_info.get(cr, {}).get(field, "")
InfoGet(info, cr, field) ==
    IF cr \in DOMAIN info THEN info[cr][field] ELSE <<>>

\* The title, as its parts in the order they are concatenated: "[tag]",
\* "[cr]" for every CR, " " + subject when there is one, " [i/n]" (marker
\* <<i, n>>) when the group is in more than one repository.  repo_index = 0
\* stands for None.
build_commit_title(p_tag, group_crs, info, repo_index, repo_total) ==
    IF group_crs = <<>>
    THEN [ tag |-> p_tag, crs |-> <<>>, subject |-> <<>>, marker |-> <<>> ]
    ELSE LET first_cr == SortedCrs(SeqToSet(group_crs))[1]
         IN  [ tag     |-> p_tag,
               crs     |-> group_crs,
               subject |-> transform_description_for_title(
                               InfoGet(info, first_cr, "description_first")),
               marker  |-> IF repo_index # 0 /\ repo_total > 1
                           THEN <<repo_index, repo_total>> ELSE <<>> ]

\* The characters of the model's strings.
Chars == { ".", "/", "a", "b", "g", "h", "x", "y", "z" }

Strings == Seq(Chars)

\* str.split("/"): SplitAcc[s, cur, acc] scans s with the component being
\* read in cur and the finished components in acc.
SplitAcc[s \in Strings, cur \in Strings, acc \in Seq(Strings)] ==
    IF s = <<>> THEN Append(acc, cur)
    ELSE IF Head(s) = "/" THEN SplitAcc[Tail(s), <<>>, Append(acc, cur)]
    ELSE SplitAcc[Tail(s), Append(cur, Head(s)), acc]

Split(s) == SplitAcc[s, <<>>, <<>>]

\* "/".join(comps)
Join[comps \in Seq(Strings)] ==
    IF comps = <<>> THEN <<>>
    ELSE IF Len(comps) = 1 THEN comps[1]
    ELSE comps[1] \o <<"/">> \o Join[Tail(comps)]

\* The components normpath keeps of an absolute path: empty and "."
\* components dropped, ".." removing the component before it (none at "/").
NormAcc[comps \in Seq(Strings), acc \in Seq(Strings)] ==
    IF comps = <<>> THEN acc
    ELSE IF Head(comps) = <<>> \/ Head(comps) = <<".">> THEN NormAcc[Tail(comps), acc]
    ELSE IF Head(comps) = <<".", ".">>
    THEN NormAcc[Tail(comps), SubSeq(acc, 1, Len(acc) - 1)]
    ELSE NormAcc[Tail(comps), Append(acc, Head(comps))]

\* The string of an absolute path with the given components.
AbsString(comps) == <<"/">> \o Join[comps]

\* os.path.join(a, b)
PathJoin(a, b) ==
    IF b # <<>> /\ Head(b) = "/" THEN b
    ELSE IF a = <<>> \/ a[Len(a)] = "/" THEN a \o b
    ELSE a \o <<"/">> \o b

\* The working directory of the process.
Cwd == <<"/", "h">>

\* The components of os.path.abspath(p).
AbsComps(p) == NormAcc[Split(PathJoin(Cwd, p)), <<>>]

\* os.path.abspath(p)
Abspath(p) == AbsString(AbsComps(p))

\* The path from the directory with components sl to the path with
\* components pl: ".." for every component of sl after the common prefix,
\* then the components of pl after it; "." when there is none.
RelComps[pl \in Seq(Strings), sl \in Seq(Strings)] ==
    LET i == CHOOSE n \in 0..Len(pl) :
                 /\ n <= Len(sl)
                 /\ \A j \in 1..n : pl[j] = sl[j]
                 /\ (n < Len(pl) /\ n < Len(sl)) => pl[n + 1] # sl[n + 1]
        rel == [ k \in 1..(Len(sl) - i) |-> <<".", ".">> ] \o SubSeq(pl, i + 1, Len(pl))
    IN  IF rel = <<>> THEN <<".">> ELSE Join[rel]

\* os.path.relpath(path, start)
Relpath(path, start) == RelComps[AbsComps(path), AbsComps(start)]

\* The lines printed under "Description:".
DescriptionLines(info, cr) ==
    LET desc_first == InfoGet(info, cr, "description_first")
        desc_full  == InfoGet(info, cr, "description_full")
    IN  IF desc_full # <<>>
        THEN [ k \in 1..Len(desc_full) |-> LStrip(desc_full[k]) ]
        ELSE IF desc_first # <<>> THEN <<desc_first>>
        ELSE << <<"(no description)">> >>

\* The body: one block per CR of the group, in stored order.
build_commit_body(group_crs, info, plan) ==
    [ k \in 1..Len(group_crs) |->
        LET cr == group_crs[k]
            proj_files == IF cr \in DOMAIN plan.cr_files THEN plan.cr_files[cr] ELSE <<>>
            sorted_files == SortedStrs(SeqToSet(proj_files))
        IN  [ patch_type  |-> InfoGet(info, cr, "patch_type"),
              cr          |-> cr,
              severity    |-> InfoGet(info, cr, "severity"),
              description |-> DescriptionLines(info, cr),
              files       |-> [ n \in 1..Len(sorted_files) |->
                                  IF plan.project # <<>>
                                  THEN Relpath(sorted_files[n], plan.project)
                                  ELSE sorted_files[n] ] ] ]

\* The --p-tag argument.
PTag == "P27"

\* ------------------------------------------------------------------------
\* parse_patch_list.  A line is the sequence of its tokens after strip(); a
\* blank line is <<>>; a label line starts with the label's token.
\* ------------------------------------------------------------------------

BlockMarker == "Patch Type:"

IsLabel(line, label) == line # <<>> /\ line[1] = label

\* content.split("Patch Type:"): the text before the first marker, then for
\* every marker the rest of the marker's line and the lines up to the next
\* marker.  block is the number of the marker that introduces the fragment
\* (0 for the text before the first marker).
RECURSIVE Fragments(_, _, _, _)
Fragments(lines, k, block, cur) ==
    IF k > Len(lines) THEN << [ block |-> block, lines |-> cur ] >>
    ELSE IF IsLabel(lines[k], BlockMarker)
    THEN << [ block |-> block, lines |-> cur ] >>
         \o Fragments(lines, k + 1, block + 1, << Tail(lines[k]) >>)
    ELSE Fragments(lines, k + 1, block, Append(cur, lines[k]))

\* raw.strip() is not empty.
NotBlank(fragment) == \E k \in 1..Len(fragment.lines) : fragment.lines[k] # <<>>

\* The entries: every fragment that is not blank, with "Patch Type:" put back
\* in front of its text (so in front of its first line).
RECURSIVE KeepEntries(_)
KeepEntries(frags) ==
    IF frags = <<>> THEN <<>>
    ELSE IF NotBlank(Head(frags))
    THEN << [ block |-> Head(frags).block,
              lines |-> << <<BlockMarker>> \o Head(frags).lines[1] >>
                        \o Tail(Head(frags).lines) ] >>
         \o KeepEntries(Tail(frags))
    ELSE KeepEntries(Tail(frags))

SplitEntriesOf(lines) == KeepEntries(Fragments(lines, 1, 0, <<>>))

\* The first non-blank line after line i, <<>> when there is none.
NextNonBlank(lines, i) ==
    LET later == { j \in (i + 1)..Len(lines) : lines[j] # <<>> }
    IN  IF later = {} THEN <<>>
        ELSE lines[CHOOSE j \in later : \A m \in later : j <= m]

\* The first "Associated Files" line after line i, Len(lines) + 1 when there
\* is none.
DescriptionEnd(lines, i) ==
    LET ends == { j \in (i + 1)..Len(lines) : IsLabel(lines[j], "Associated Files:") }
    IN  IF ends = {} THEN Len(lines) + 1
        ELSE CHOOSE j \in ends : \A m \in ends : j <= m

\* The non-blank lines of a list of lines, in order.
RECURSIVE NonBlank(_)
NonBlank(lines) ==
    IF lines = <<>> THEN <<>>
    ELSE IF Head(lines) = <<>> THEN NonBlank(Tail(lines))
    ELSE << Head(lines) >> \o NonBlank(Tail(lines))

\* "\n".join(lines).strip(): the lines without the blank ones at both ends.
RECURSIVE StripBlankLines(_)
StripBlankLines(lines) ==
    IF lines = <<>> THEN <<>>
    ELSE IF Head(lines) = <<>> THEN StripBlankLines(Tail(lines))
    ELSE IF lines[Len(lines)] = <<>>
    THEN StripBlankLines(SubSeq(lines, 1, Len(lines) - 1))
    ELSE lines

\* The fields of an entry before its lines are scanned; cr_id <<>> is None.
EmptyFields ==
    [ cr_id |-> <<>>, patch_type |-> <<>>, severity |-> <<>>,
      description_first |-> <<"No Description">>, description_full |-> <<>>,
      files |-> <<>> ]

\* The CR ID handler: the value after the label on the same line, else the
\* first non-blank line that follows, else cr_id is left as it was.
CrIdValue(lines, i, old) ==
    IF Len(lines[i]) > 1 THEN Tail(lines[i])
    ELSE IF NextNonBlank(lines, i) # <<>> THEN NextNonBlank(lines, i)
    ELSE old

\* The while loop over the lines of an entry, at line i with the fields f.
RECURSIVE Scan(_, _, _)
Scan(lines, i, f) ==
    IF i > Len(lines) THEN f
    ELSE IF IsLabel(lines[i], BlockMarker)
    THEN Scan(lines, i + 1, [ f EXCEPT !.patch_type = NextNonBlank(lines, i) ])
    ELSE IF IsLabel(lines[i], "CR ID:")
    THEN Scan(lines, i + 1, [ f EXCEPT !.cr_id = CrIdValue(lines, i, f.cr_id) ])
    ELSE IF IsLabel(lines[i], "Severity:")
    THEN Scan(lines, i + 1,
              [ f EXCEPT !.severity = IF i + 1 <= Len(lines) THEN lines[i + 1] ELSE <<>> ])
    ELSE IF IsLabel(lines[i], "Description:")
    THEN LET j == DescriptionEnd(lines, i)
             desc_lines == SubSeq(lines, i + 1, j - 1)
         IN  Scan(lines, j,
                  [ f EXCEPT !.description_full = StripBlankLines(desc_lines),
                             !.description_first =
                                 IF NonBlank(desc_lines) = <<>> THEN @
                                 ELSE NonBlank(desc_lines)[1] ])
    ELSE IF IsLabel(lines[i], "Associated Files:")
    THEN [ f EXCEPT !.files = NonBlank(SubSeq(lines, i + 1, Len(lines))) ]
    ELSE Scan(lines, i + 1, f)

\* The ledger has been read; it is split into entries.
SplitLedger ==
    /\ pc = "read"
    /\ entries' = SplitEntriesOf(content)
    /\ pi' = 1
    /\ pc' = "scan"
    /\ UNCHANGED << planVars, execVars, buildVars, content, results, origin >>

\* One pass of the loop over the entries: the entry is scanned; it is
\* appended to results unless it has no cr_id.
ParseEntry ==
    /\ pc = "scan"
    /\ pi <= Len(entries)
    /\ LET f == Scan(entries[pi].lines, 1, EmptyFields)
       IN  IF f.cr_id = <<>>
           THEN UNCHANGED << results, origin >>
           ELSE /\ results' = Append(results, f)
                /\ origin' = Append(origin, entries[pi].block)
    /\ pi' = pi + 1
    /\ UNCHANGED << pc, planVars, execVars, buildVars, content, entries >>

\* parse_patch_list returns results.
ParseDone ==
    /\ pc = "scan"
    /\ pi > Len(entries)
    /\ pc' = "parsed"
    /\ UNCHANGED << planVars, execVars, buildVars, parseVars >>

\* ------------------------------------------------------------------------
\* find_git_project_for_file and build_project_groups
\* ------------------------------------------------------------------------

\* None, as a value that is no string.
NoProject == <<"None">>

\* str.startswith
StartsWith(s, prefix) ==
    /\ Len(prefix) <= Len(s)
    /\ \A j \in 1..Len(prefix) : s[j] = prefix[j]

\* os.path.dirname of a normalized absolute path.
Dirname(s) ==
    LET i == CHOOSE k \in 1..Len(s) : s[k] = "/" /\ \A j \in (k + 1)..Len(s) : s[j] # "/"
    IN  IF i = 1 THEN <<"/">> ELSE SubSeq(s, 1, i - 1)

\* The while loop: from directory cur upwards until the cache, a .git marker,
\* the root directory or the top of the filesystem ends the walk.  The result
\* is the project root found (or NoProject) and the cache as the walk leaves it.
RECURSIVE Ascend(_, _, _, _)
Ascend(cur, root_dir_abs, cache, git) ==
    IF cur \in DOMAIN cache
    THEN [ proj_root |-> cache[cur], cache |-> cache ]
    ELSE IF cur \in git
    THEN [ proj_root |-> cur, cache |-> (cur :> cur) @@ cache ]
    ELSE IF Abspath(cur) = root_dir_abs
    THEN [ proj_root |-> NoProject, cache |-> (cur :> NoProject) @@ cache ]
    ELSE IF Dirname(cur) = cur
    THEN [ proj_root |-> NoProject, cache |-> (cur :> NoProject) @@ cache ]
    ELSE Ascend(Dirname(cur), root_dir_abs, cache, git)

\* The test "abs_path lies under root_dir_abs" as the code makes it.
UnderRoot(abs_path, root_dir_abs) == StartsWith(abs_path, root_dir_abs)

\* find_git_project_for_file(root_dir, file_rel_path, cache) with the .git
\* markers git: [project: the project path or NoProject, cache: the cache after].
find_git_project_for_file(root_dir, file_rel_path, cache, git) ==
    LET root_dir_abs == Abspath(root_dir)
        abs_path == Abspath(PathJoin(root_dir_abs, file_rel_path))
    IN  IF ~UnderRoot(abs_path, root_dir_abs)
        THEN [ project |-> NoProject, cache |-> cache ]
        ELSE LET walk == Ascend(Dirname(abs_path), root_dir_abs, cache, git)
             IN  IF walk.proj_root = NoProject
                 THEN [ project |-> NoProject, cache |-> walk.cache ]
                 ELSE LET project_rel == Relpath(walk.proj_root, root_dir_abs)
                      IN  [ project |-> IF project_rel = <<".">> THEN <<>> ELSE project_rel,
                            cache   |-> walk.cache ]

\* project_map[proj][cr_id].add(f): proj and cr_id become keys when missing.
AddFile(pm, proj, cr, f) ==
    LET order == IF proj \in DOMAIN pm.files THEN pm.order ELSE Append(pm.order, proj)
        old   == IF proj \in DOMAIN pm.files THEN pm.files[proj] ELSE <<>>
        had   == IF cr \in DOMAIN old THEN old[cr] ELSE {}
    IN  [ order |-> order,
          files |-> (proj :> ((cr :> (had \cup {f})) @@ old)) @@ pm.files ]

\* The loop over the files of one record: the state of build_project_groups
\* after files k.. of item have been resolved and added.
RECURSIVE AddFiles(_, _, _, _)
AddFiles(st, item, k, root_dir) ==
    IF k > Len(item.files) THEN st
    ELSE LET f == item.files[k]
             r == find_git_project_for_file(root_dir, f, st.cache, st.git)
         IN  AddFiles([ st EXCEPT !.cache = r.cache,
                                  !.resolved = (f :> r.project) @@ @,
                                  !.pm = IF r.project = NoProject THEN @
                                         ELSE AddFile(@, r.project, item.cr_id, f) ],
                      item, k + 1, root_dir)

\* The metadata build_project_groups keeps of a record.
InfoOf(item) ==
    [ patch_type        |-> item.patch_type,
      severity          |-> item.severity,
      description_first |-> item.description_first,
      description_full  |-> item.description_full ]

\* The --root argument.
RootDir == <<"/", "h", "/", "g">>

\* A loop body that stores the metadata of every record (the last one wins).
BuildRecordLastWins ==
    /\ pc = "build"
    /\ bi <= Len(parsed)
    /\ LET item == parsed[bi]
           st == AddFiles([ pm |-> project_map, cache |-> git_cache,
                            resolved |-> resolved, git |-> git_dirs ],
                          item, 1, RootDir)
       IN  /\ cr_info' = (item.cr_id :> InfoOf(item)) @@ cr_info
           /\ project_map' = st.pm
           /\ git_cache' = st.cache
           /\ resolved' = st.resolved
    /\ bi' = bi + 1
    /\ UNCHANGED << pc, commit_plans, summary, dry_run, idx, fi, message, index, dir_exists,
                    seen, outcome, processed, tmp_files, calls, preview, passed, commits,
                    git_dirs, parsed >>
    /\ UNCHANGED parseVars

\* One pass of the loop of build_project_groups: the metadata of a CR seen
\* for the first time is stored, every file of the record is resolved and
\* added to the project map.
BuildRecord ==
    /\ pc = "build"
    /\ bi <= Len(parsed)
    /\ LET item == parsed[bi]
           st == AddFiles([ pm |-> project_map, cache |-> git_cache,
                            resolved |-> resolved, git |-> git_dirs ],
                          item, 1, RootDir)
       IN  /\ cr_info' = IF item.cr_id \in DOMAIN cr_info THEN cr_info
                         ELSE (item.cr_id :> InfoOf(item)) @@ cr_info
           /\ project_map' = st.pm
           /\ git_cache' = st.cache
           /\ resolved' = st.resolved
    /\ bi' = bi + 1
    /\ UNCHANGED << pc, commit_plans, summary, dry_run, idx, fi, message, index, dir_exists,
                    seen, outcome, processed, tmp_files, calls, preview, passed, commits,
                    git_dirs, parsed >>
    /\ UNCHANGED parseVars

\* build_project_groups returns project_map and cr_info.
BuildDone ==
    /\ pc = "build"
    /\ bi > Len(parsed)
    /\ pc' = "mapped"
    /\ UNCHANGED << project_map, commit_plans, cr_info, summary, dry_run, idx, fi, message,
                    index, dir_exists, seen, outcome, processed, tmp_files, calls, preview,
                    passed, commits, git_dirs, parsed, bi, git_cache, resolved >>
    /\ UNCHANGED parseVars

\* ------------------------------------------------------------------------
\* perform_commits
\* ------------------------------------------------------------------------

NoCalls == [ add |-> 0, diff |-> 0, commit |-> 0, mktemp |-> 0 ]

NumPlans == Len(commit_plans)

\* A call of perform_commits starts, with or without dry_run.  The model
\* follows dry runs and at most one live run, which starts with nothing staged.
Invoke ==
    /\ pc = "ready" \/ (pc = "done" /\ dry_run)
    /\ \E d \in BOOLEAN : dry_run' = d
    /\ pc' = "summary"
    /\ idx' = 0
    /\ fi' = 0
    /\ message' = <<>>
    /\ seen' = [ i \in 1..NumPlans |-> <<>> ]
    /\ outcome' = [ i \in 1..NumPlans |-> "pending" ]
    /\ processed' = <<>>
    /\ calls' = NoCalls
    /\ commits' = <<>>
    /\ UNCHANGED << project_map, commit_plans, cr_info, summary, index, dir_exists,
                    tmp_files, preview, passed >>
    /\ UNCHANGED << buildVars, parseVars >>

\* assign_repo_index and the "Commit Plan" summary loop.
PlanSummary ==
    /\ pc = "summary"
    /\ commit_plans' = assign_repo_index(commit_plans)
    /\ summary' = [ i \in 1..NumPlans |->
                      build_commit_title(PTag, commit_plans'[i].group_crs, cr_info,
                                         commit_plans'[i].repo_index,
                                         commit_plans'[i].repo_total) ]
    /\ pc' = IF dry_run THEN "preview" ELSE "plan"
    /\ idx' = 1
    /\ UNCHANGED << project_map, cr_info, dry_run, fi, message, index, dir_exists, seen,
                    outcome, processed, tmp_files, calls, preview, passed, commits >>
    /\ UNCHANGED << buildVars, parseVars >>

\* A preview loop that renders the titles without the repository ordinal.
DryRunPreviewNoOrdinal ==
    /\ pc = "preview"
    /\ preview' = [ i \in 1..NumPlans |->
                      << [ title |-> build_commit_title(PTag, commit_plans[i].group_crs,
                                                        cr_info, 0, 0),
                           body  |-> build_commit_body(commit_plans[i].group_crs, cr_info,
                                                       commit_plans[i]) ] >> ]
    /\ pc' = "done"
    /\ UNCHANGED << project_map, commit_plans, cr_info, summary, dry_run, idx, fi, message,
                    index, dir_exists, seen, outcome, processed, tmp_files, calls, passed,
                    commits >>
    /\ UNCHANGED << buildVars, parseVars >>

\* The dry-run loop: title and body of every plan are rendered and printed;
\* then perform_commits returns.
DryRunPreview ==
    /\ pc = "preview"
    /\ preview' = [ i \in 1..NumPlans |->
                      << [ title |-> build_commit_title(PTag, commit_plans[i].group_crs,
                                                        cr_info, commit_plans[i].repo_index,
                                                        commit_plans[i].repo_total),
                           body  |-> build_commit_body(commit_plans[i].group_crs, cr_info,
                                                       commit_plans[i]) ] >> ]
    /\ pc' = "done"
    /\ UNCHANGED << project_map, commit_plans, cr_info, summary, dry_run, idx, fi, message,
                    index, dir_exists, seen, outcome, processed, tmp_files, calls, passed,
                    commits >>
    /\ UNCHANGED << buildVars, parseVars >>

\* The live loop leaves plan idx with outcome o and goes to the next plan.
NextPlan(o) ==
    /\ outcome' = [ outcome EXCEPT ![idx] = o ]
    /\ processed' = Append(processed, idx)
    /\ idx' = idx + 1
    /\ pc' = "plan"

\* Top of the live loop: the repository directory is looked up; a plan whose
\* directory is missing is skipped, otherwise its message is rendered.
EnterPlan ==
    /\ pc = "plan"
    /\ idx <= NumPlans
    /\ IF ~dir_exists[commit_plans[idx].project]
       THEN /\ NextPlan("skipped-missing-directory")
            /\ UNCHANGED << fi, message >>
       ELSE /\ message' =
                 << [ title |-> build_commit_title(PTag, commit_plans[idx].group_crs,
                                                   cr_info, commit_plans[idx].repo_index,
                                                   commit_plans[idx].repo_total),
                      body  |-> build_commit_body(commit_plans[idx].group_crs, cr_info,
                                                  commit_plans[idx]) ] >>
            /\ fi' = 1
            /\ pc' = "add"
            /\ UNCHANGED << idx, outcome, processed >>
    /\ UNCHANGED << project_map, commit_plans, cr_info, summary, dry_run, index, dir_exists,
                    seen, tmp_files, calls, preview, passed, commits >>
    /\ UNCHANGED << buildVars, parseVars >>

\* The live loop has run out of plans: perform_commits returns.
Finish ==
    /\ pc = "plan"
    /\ idx > NumPlans
    /\ pc' = "done"
    /\ UNCHANGED << project_map, commit_plans, cr_info, summary, dry_run, idx, fi, message,
                    index, dir_exists, seen, outcome, processed, tmp_files, calls, preview,
                    passed, commits >>
    /\ UNCHANGED << buildVars, parseVars >>

\* What one pass of the git-add loop can meet: the file is missing (no git
\* add), git add fails (RuntimeError, caught), git add succeeds and the file
\* has no change to stage, git add succeeds and stages the file.
AddResults == { "missing", "failed", "unchanged", "staged" }

\* A git-add loop in which a failed git add leaves the function (the
\* RuntimeError is not caught).
StageFileAbortOnFailure ==
    /\ pc = "add"
    /\ fi <= Len(commit_plans[idx].all_files)
    /\ \E r \in AddResults :
          LET f == commit_plans[idx].all_files[fi]
              proj == commit_plans[idx].project
          IN  /\ seen' = [ seen EXCEPT ![idx] = (f :> r) @@ @ ]
              /\ calls' = IF r = "missing" THEN calls
                          ELSE [ calls EXCEPT !.add = @ + 1 ]
              /\ index' = IF r = "staged"
                          THEN [ index EXCEPT ![proj] = @ \cup {f} ] ELSE index
              /\ pc' = IF r = "failed" THEN "done" ELSE pc
    /\ fi' = fi + 1
    /\ UNCHANGED << project_map, commit_plans, cr_info, summary, dry_run, idx, message,
                    dir_exists, outcome, processed, tmp_files, preview, passed, commits >>
    /\ UNCHANGED << buildVars, parseVars >>

\* One pass of the git-add loop, for file fi of plan idx.
StageFile ==
    /\ pc = "add"
    /\ fi <= Len(commit_plans[idx].all_files)
    /\ \E r \in AddResults :
          LET f == commit_plans[idx].all_files[fi]
              proj == commit_plans[idx].project
          IN  /\ seen' = [ seen EXCEPT ![idx] = (f :> r) @@ @ ]
              /\ calls' = IF r = "missing" THEN calls
                          ELSE [ calls EXCEPT !.add = @ + 1 ]
              /\ index' = IF r = "staged"
                          THEN [ index EXCEPT ![proj] = @ \cup {f} ] ELSE index
    /\ fi' = fi + 1
    /\ UNCHANGED << project_map, commit_plans, cr_info, summary, dry_run, idx, message,
                    dir_exists, outcome, processed, tmp_files, preview, passed, commits, pc >>
    /\ UNCHANGED << buildVars, parseVars >>

\* git diff --cached --quiet in the repository: return code 0 exactly when
\* the index of the repository holds no staged change.
DiffCached ==
    /\ pc = "add"
    /\ fi > Len(commit_plans[idx].all_files)
    /\ calls' = [ calls EXCEPT !.diff = @ + 1 ]
    /\ IF index[commit_plans[idx].project] = {}
       THEN NextPlan("skipped-nothing-staged")
       ELSE /\ pc' = "mktemp"
            /\ UNCHANGED << idx, outcome, processed >>
    /\ UNCHANGED << project_map, commit_plans, cr_info, summary, dry_run, fi, message,
                    index, dir_exists, seen, tmp_files, preview, passed, commits >>
    /\ UNCHANGED << buildVars, parseVars >>

\* The message is written to a NamedTemporaryFile(delete=False).
WriteTemp ==
    /\ pc = "mktemp"
    /\ tmp_files' = tmp_files \cup { [ plan |-> idx, text |-> message ] }
    /\ calls' = [ calls EXCEPT !.mktemp = @ + 1 ]
    /\ pc' = "commit"
    /\ UNCHANGED << project_map, commit_plans, cr_info, summary, dry_run, idx, fi, message,
                    index, dir_exists, seen, outcome, processed, preview, passed, commits >>
    /\ UNCHANGED << buildVars, parseVars >>

\* git commit -F tmp_path: it succeeds and commits what the index of the
\* repository holds, or it fails (RuntimeError, caught) and leaves the index.
GitCommit ==
    /\ pc = "commit"
    /\ calls' = [ calls EXCEPT !.commit = @ + 1 ]
    /\ \E t \in tmp_files :
          /\ t.plan = idx
          /\ passed' = [ passed EXCEPT ![idx] = t.text ]
    /\ \E ok \in BOOLEAN :
          LET proj == commit_plans[idx].project
          IN  IF ok
              THEN /\ commits' = Append(commits, [ plan |-> idx, files |-> index[proj] ])
                   /\ index' = [ index EXCEPT ![proj] = {} ]
                   /\ outcome' = [ outcome EXCEPT ![idx] = "commit-succeeded" ]
              ELSE /\ outcome' = [ outcome EXCEPT ![idx] = "commit-failed" ]
                   /\ UNCHANGED << commits, index >>
    /\ pc' = "cleanup"
    /\ UNCHANGED << project_map, commit_plans, cr_info, summary, dry_run, idx, fi, message,
                    dir_exists, seen, processed, tmp_files, preview >>
    /\ UNCHANGED << buildVars, parseVars >>

\* A cleanup that removes the message file only after a successful commit.
RemoveTempOnSuccess ==
    /\ pc = "cleanup"
    /\ tmp_files' = IF outcome[idx] = "commit-succeeded"
                    THEN { t \in tmp_files : t.plan # idx } ELSE tmp_files
    /\ processed' = Append(processed, idx)
    /\ idx' = idx + 1
    /\ pc' = "plan"
    /\ UNCHANGED << project_map, commit_plans, cr_info, summary, dry_run, fi, message, index,
                    dir_exists, seen, outcome, calls, preview, passed, commits >>
    /\ UNCHANGED << buildVars, parseVars >>

\* finally: os.remove(tmp_path); then the loop goes to the next plan.
RemoveTemp ==
    /\ pc = "cleanup"
    /\ tmp_files' = { t \in tmp_files : t.plan # idx }
    /\ processed' = Append(processed, idx)
    /\ idx' = idx + 1
    /\ pc' = "plan"
    /\ UNCHANGED << project_map, commit_plans, cr_info, summary, dry_run, fi, message, index,
                    dir_exists, seen, outcome, calls, preview, passed, commits >>
    /\ UNCHANGED << buildVars, parseVars >>

\* ------------------------------------------------------------------------
\* Inputs
\* ------------------------------------------------------------------------

\* Number of CR identifiers of the model (1..NumCRs).
NumCRs == 3

CRs == 1..NumCRs

\* All orders (lists without repetition) of the elements of S.
Orders(S) ==
    { s \in [1..Cardinality(S) -> S] : \A i, j \in 1..Cardinality(S) : s[i] = s[j] => i = j }

\* The project map that holds files raw[p][c] for CR c in project p: as
\* build_project_groups builds it, a CR is a key of a project only with at
\* least one file, and a project is a key only with at least one CR.
MapOf(raw, order) ==
    [ order |-> order,
      files |-> [ p \in SeqToSet(order) |->
                    [ c \in { c \in DOMAIN raw[p] : raw[p][c] # {} } |-> raw[p][c] ] ] ]

Present(raw) == { p \in DOMAIN raw : \E c \in DOMAIN raw[p] : raw[p][c] # {} }

MapsOver(raws) ==
    UNION { { MapOf(raw, order) : order \in Orders(Present(raw)) } : raw \in raws }

\* Project maps over the root repository "" and the repository "a" in which
\* every CR holds any set of the files "x" and "y".
GroupMaps == MapsOver([ { <<>>, <<"a">> } -> [CRs -> SUBSET { <<"x">>, <<"y">> }] ])

\* Project maps over the repositories "", "a" and "b" in which every CR of a
\* repository holds the one file "x".
LabelMaps == MapsOver([ { <<>>, <<"a">>, <<"b">> } -> [CRs -> SUBSET { <<"x">> }] ])

\* The CRs of the executor model.
CommitCRs == { 1, 2 }

\* The files of the executor model, by repository: "x" in the root
\* repository, "a/x" and "a/y" in the repository "a".
CommitFiles ==
    ( <<>> :> { <<"x">> } ) @@ ( <<"a">> :> { <<"a", "/", "x">>, <<"a", "/", "y">> } )

CommitMaps ==
    MapsOver({ raw \in [ DOMAIN CommitFiles -> [CommitCRs -> SUBSET UNION { CommitFiles[p] : p \in DOMAIN CommitFiles }] ] :
                 \A p \in DOMAIN raw : \A c \in CommitCRs : raw[p][c] \subseteq CommitFiles[p] })

\* The CrInfo table of the labelling and executor models.
InfoTable ==
    [ c \in CRs |->
        IF c = 1
        THEN [ patch_type        |-> <<"Customer Request">>,
               severity          |-> <<>>,
               description_first |-> <<SecurityPrefix, "[CVE-2024-0001]", "fix">>,
               description_full  |-> << <<SecurityPrefix, "[CVE-2024-0001]", "fix">>,
                                        <<" ", "details">> >> ]
        ELSE [ patch_type        |-> <<>>,
               severity          |-> <<"High">>,
               description_first |-> <<"No Description">>,
               description_full  |-> <<>> ] ]

\* The directories that may hold a .git marker: the root directory "/h/g",
\* its subdirectory "/h/g/a" and its sibling "/h/gb".
GitCandidates ==
    { <<"/", "h", "/", "g">>,
      <<"/", "h", "/", "g", "/", "a">>,
      <<"/", "h", "/", "g", "b">> }

\* The file lists of the records: of the files "x", "a/x", "a/y" and
\* "../gb/x", relative to the root directory.
FileLists ==
    { <<>>,
      << <<"x">> >>,
      << <<"a", "/", "x">> >>,
      << <<".", ".", "/", "g", "b", "/", "x">> >>,
      << <<"a", "/", "x">>, <<"a", "/", "y">> >>,
      << <<"x">>, <<".", ".", "/", "g", "b", "/", "x">> >> }

\* The metadata of the records.
Metadata ==
    { [ patch_type        |-> <<"Customer Request">>,
        severity          |-> <<"High">>,
        description_first |-> <<"fix">>,
        description_full  |-> << <<"fix">>, <<"details">> >> ],
      [ patch_type        |-> <<>>,
        severity          |-> <<>>,
        description_first |-> <<"No Description">>,
        description_full  |-> <<>> ] }

BuildRecords ==
    { [ cr_id             |-> c,
        patch_type        |-> m.patch_type,
        severity          |-> m.severity,
        description_first |-> m.description_first,
        description_full  |-> m.description_full,
        files             |-> fl ] : c \in CommitCRs, m \in Metadata, fl \in FileLists }

\* Longest list of records given to build_project_groups.
MaxRecords == 2

\* The lines of the ledgers: blank, "CR ID:" alone and with a value, the
\* other labels, a line of text.
LedgerLines ==
    { <<>>, <<"CR ID:">>, <<"CR ID:", "ALPS1">>, <<"Severity:">>, <<"Description:">>,
      <<"Associated Files:">>, <<"ALPS2">> }

\* Most blocks of a ledger, and most lines of a block after its marker line.
MaxBlocks == 2

MaxBlockLines == 3

SeqsUpTo(S, n) == UNION { [1..k -> S] : k \in 0..n }

\* The ledger made of the given blocks, each after a "Patch Type:" line.
RECURSIVE LedgerOf(_)
LedgerOf(blocks) ==
    IF blocks = <<>> THEN <<>>
    ELSE << <<BlockMarker>> >> \o Head(blocks) \o LedgerOf(Tail(blocks))

\* ------------------------------------------------------------------------
\* Specifications
\* ------------------------------------------------------------------------

vars == << pc, planVars, execVars, buildVars, parseVars >>

\* perform_commits has not been called.
ExecutorIdle ==
    /\ dry_run = FALSE
    /\ idx = 0
    /\ fi = 0
    /\ message = <<>>
    /\ index = <<>>
    /\ dir_exists = <<>>
    /\ seen = <<>>
    /\ outcome = <<>>
    /\ processed = <<>>
    /\ tmp_files = {}
    /\ calls = NoCalls
    /\ preview = <<>>
    /\ passed = <<>>
    /\ commits = <<>>

\* build_project_groups has not been called.
BuildIdle ==
    /\ git_dirs = {}
    /\ parsed = <<>>
    /\ bi = 0
    /\ git_cache = <<>>
    /\ resolved = <<>>

\* parse_patch_list has not been called.
ParseIdle ==
    /\ content = <<>>
    /\ entries = <<>>
    /\ pi = 0
    /\ results = <<>>
    /\ origin = <<>>

\* commit_plans = find_cr_components_per_project(project_map)
FindComponents ==
    /\ pc = "mapped"
    /\ commit_plans' = find_cr_components_per_project(project_map)
    /\ pc' = "summary"
    /\ UNCHANGED << project_map, cr_info, summary, dry_run, idx, fi, message, index,
                    dir_exists, seen, outcome, processed, tmp_files, calls, preview,
                    passed, commits >>
    /\ UNCHANGED << buildVars, parseVars >>

\* Grouping and labelling: a project map is grouped into plans, the plans are
\* labelled and their titles listed.
InitPlan ==
    /\ pc = "mapped"
    /\ project_map \in GroupMaps \cup LabelMaps
    /\ commit_plans = <<>>
    /\ cr_info = InfoTable
    /\ summary = <<>>
    /\ ExecutorIdle
    /\ BuildIdle
    /\ ParseIdle

NextPlanning == FindComponents \/ PlanSummary

SpecPlan == InitPlan /\ [][NextPlanning]_vars

\* The executor: perform_commits is called on the plans of a project map.
InitCommit ==
    /\ pc = "ready"
    /\ project_map \in CommitMaps
    /\ commit_plans = find_cr_components_per_project(project_map)
    /\ cr_info = InfoTable
    /\ summary = <<>>
    /\ dry_run = FALSE
    /\ idx = 0
    /\ fi = 0
    /\ message = <<>>
    /\ index = [ p \in DOMAIN CommitFiles |-> {} ]
    /\ dir_exists \in [ DOMAIN CommitFiles -> BOOLEAN ]
    /\ seen = [ i \in 1..NumPlans |-> <<>> ]
    /\ outcome = [ i \in 1..NumPlans |-> "pending" ]
    /\ processed = <<>>
    /\ tmp_files = {}
    /\ calls = NoCalls
    /\ preview = [ i \in 1..NumPlans |-> <<>> ]
    /\ passed = [ i \in 1..NumPlans |-> <<>> ]
    /\ commits = <<>>
    /\ BuildIdle
    /\ ParseIdle

\* The steps of a running perform_commits call.
RunStep ==
    \/ PlanSummary
    \/ DryRunPreview
    \/ EnterPlan
    \/ StageFile
    \/ DiffCached
    \/ WriteTemp
    \/ GitCommit
    \/ RemoveTemp
    \/ Finish

NextCommit == Invoke \/ RunStep

SpecCommit == InitCommit /\ [][NextCommit]_vars

\* The process is single-threaded and every external command is awaited to
\* completion, so a running call always takes its next step.
SpecCommitFair == SpecCommit /\ WF_vars(RunStep)

\* The ledger parser: parse_patch_list is called on a ledger.
InitParse ==
    /\ pc = "read"
    /\ \E blocks \in SeqsUpTo(SeqsUpTo(LedgerLines, MaxBlockLines), MaxBlocks) :
          content = LedgerOf(blocks)
    /\ entries = <<>>
    /\ pi = 0
    /\ results = <<>>
    /\ origin = <<>>
    /\ project_map = [ order |-> <<>>, files |-> <<>> ]
    /\ commit_plans = <<>>
    /\ cr_info = <<>>
    /\ summary = <<>>
    /\ ExecutorIdle
    /\ BuildIdle

NextParse == SplitLedger \/ ParseEntry \/ ParseDone

SpecParse == InitParse /\ [][NextParse]_vars

\* The project map builder: build_project_groups is called on a list of
\* records, in a tree with some .git markers.
InitBuild ==
    /\ pc = "build"
    /\ git_dirs \in SUBSET GitCandidates
    /\ parsed \in SeqsUpTo(BuildRecords, MaxRecords)
    /\ bi = 1
    /\ git_cache = <<>>
    /\ resolved = <<>>
    /\ project_map = [ order |-> <<>>, files |-> <<>> ]
    /\ commit_plans = <<>>
    /\ cr_info = <<>>
    /\ summary = <<>>
    /\ ExecutorIdle
    /\ ParseIdle

NextBuild == BuildRecord \/ BuildDone

SpecBuild == InitBuild /\ [][NextBuild]_vars

\* ------------------------------------------------------------------------
\* Properties of the grouping
\* ------------------------------------------------------------------------

PlanCrs(plan) == SeqToSet(plan.group_crs)

PlansOfProject(proj) == { i \in 1..Len(commit_plans) : commit_plans[i].project = proj }

\* The CRs linked to a CR of S by a chain of CRs in which consecutive CRs
\* share a file of this project.
RECURSIVE ChainClosure(_, _)
ChainClosure(cr_files, S) ==
    LET T == S \cup { b \in DOMAIN cr_files :
                        \E a \in S : cr_files[a] \cap cr_files[b] # {} }
    IN  IF T = S THEN S ELSE ChainClosure(cr_files, T)

Linked(cr_files, a, b) == b \in ChainClosure(cr_files, {a})

\* C1: per repository the plans' CR groups partition the repository's CRs;
\* two CRs are in one plan exactly when a chain of file-sharing CRs of that
\* repository links them; a plan never holds a CR its repository does not
\* have; all_files is the union of the members' files in that repository.
C1_GroupsAreFileChainComponents ==
    pc = "summary" =>
        /\ \A i \in 1..Len(commit_plans) :
              commit_plans[i].project \in DOMAIN project_map.files
        /\ \A proj \in DOMAIN project_map.files :
              LET cf == project_map.files[proj]
                  P  == PlansOfProject(proj)
              IN  /\ \A c \in DOMAIN cf :
                        Cardinality({ i \in P : c \in PlanCrs(commit_plans[i]) }) = 1
                  /\ \A i \in P :
                        /\ PlanCrs(commit_plans[i]) \subseteq DOMAIN cf
                        /\ Len(commit_plans[i].group_crs)
                             = Cardinality(PlanCrs(commit_plans[i]))
                        /\ SeqToSet(commit_plans[i].all_files)
                             = UNION { cf[c] : c \in PlanCrs(commit_plans[i]) }
                  /\ \A a, b \in DOMAIN cf :
                        (\E i \in P : {a, b} \subseteq PlanCrs(commit_plans[i]))
                            <=> Linked(cf, a, b)

\* A repository with a plan of three CRs two of which share no file (linked
\* only through the third), while another repository holds the same CRs in
\* more than one plan.
C1_Witness ==
    /\ pc = "summary"
    /\ \E i, j \in 1..Len(commit_plans) :
          /\ commit_plans[i].project # commit_plans[j].project
          /\ Len(commit_plans[i].group_crs) = 3
          /\ \E a, b \in PlanCrs(commit_plans[i]) :
                project_map.files[commit_plans[i].project][a]
                  \cap project_map.files[commit_plans[i].project][b] = {}
          /\ Len(commit_plans[j].group_crs) < 3

FilesUnder(plan, c) == SeqToSet(plan.cr_files[c])

\* C2 as stated: every file of all_files is listed under exactly one CR of
\* the plan's cr_files.
C2_EachFileUnderExactlyOneCr ==
    pc = "summary" =>
        \A i \in 1..Len(commit_plans) :
            \A f \in SeqToSet(commit_plans[i].all_files) :
                Cardinality({ c \in DOMAIN commit_plans[i].cr_files :
                                f \in FilesUnder(commit_plans[i], c) }) = 1

\* C2 amended: every file of all_files is listed under at least one CR of the
\* plan's cr_files (under each CR of the plan that touches it), and cr_files
\* lists no file that is not in all_files.
C2_EachFileUnderSomeCr ==
    pc = "summary" =>
        \A i \in 1..Len(commit_plans) :
            /\ \A f \in SeqToSet(commit_plans[i].all_files) :
                  \E c \in DOMAIN commit_plans[i].cr_files :
                      f \in FilesUnder(commit_plans[i], c)
            /\ \A c \in DOMAIN commit_plans[i].cr_files :
                  FilesUnder(commit_plans[i], c) \subseteq SeqToSet(commit_plans[i].all_files)

\* A plan of two CRs with one file listed under both and one file listed
\* under one of them only.
C2_Witness ==
    /\ pc = "summary"
    /\ \E i \in 1..Len(commit_plans) :
          /\ Len(commit_plans[i].group_crs) = 2
          /\ \E f, g \in SeqToSet(commit_plans[i].all_files) :
                /\ \A c \in PlanCrs(commit_plans[i]) : f \in FilesUnder(commit_plans[i], c)
                /\ \E c \in PlanCrs(commit_plans[i]) : g \notin FilesUnder(commit_plans[i], c)


\* ------------------------------------------------------------------------
\* Properties of the labelling
\* ------------------------------------------------------------------------

\* C6: the plans that hold one CR-group tuple, k of them, carry repo_total k;
\* if k > 1 they carry the ordinals 1..k, each once, ascending with the
\* repository path (the root repository "" first), and the title of each ends
\* with the marker [i/k]; if k = 1 the title has no marker.
C6_OrdinalsFollowRepositoryOrder ==
    pc = "plan" =>
        \A i \in 1..Len(commit_plans) :
            LET S == { j \in 1..Len(commit_plans) :
                         commit_plans[j].group_crs = commit_plans[i].group_crs }
                k == Cardinality(S)
            IN  /\ Len(summary) = Len(commit_plans)
                /\ k > 1 =>
                      /\ { commit_plans[j].repo_index : j \in S } = 1..k
                      /\ \A j \in S :
                            StrLess(commit_plans[j].project, commit_plans[i].project)
                                => commit_plans[j].repo_index < commit_plans[i].repo_index
                      /\ commit_plans[i].project = <<>> => commit_plans[i].repo_index = 1
                      /\ summary[i].marker = << commit_plans[i].repo_index, k >>
                /\ k = 1 => summary[i].marker = <<>>

\* One CR group in the three repositories, listed in the order "b", "", "a".
C6_Witness ==
    /\ pc = "plan"
    /\ \E i, j, l \in 1..Len(commit_plans) :
          /\ i < j /\ j < l
          /\ commit_plans[i].group_crs = commit_plans[j].group_crs
          /\ commit_plans[j].group_crs = commit_plans[l].group_crs
          /\ commit_plans[i].project = <<"b">>
          /\ commit_plans[j].project = <<>>
          /\ commit_plans[l].project = <<"a">>
          /\ summary[i].marker = <<3, 3>>

\* ------------------------------------------------------------------------
\* Properties of the executor
\* ------------------------------------------------------------------------

CommitOutcomes == { "commit-succeeded", "commit-failed" }

\* Plan i staged at least one file in this call.
StagedSomething(i) == \E f \in DOMAIN seen[i] : seen[i][f] = "staged"

\* C3 as stated: git commit is invoked for a plan only if the staging of that
\* plan added something; a plan whose staging added nothing is skipped.
C3_NothingStagedByPlanMeansNoCommit ==
    \A i \in 1..NumPlans :
        /\ (pc \in { "mktemp", "commit", "cleanup" } /\ idx = i) => StagedSomething(i)
        /\ outcome[i] \in CommitOutcomes => StagedSomething(i)

LiveRunning == ~dry_run /\ pc \notin { "ready", "done" }

LiveDone == ~dry_run /\ pc = "done"

\* Every plan has been processed, in list order, and has reached its outcome;
\* in a plan whose directory exists every file went through the git-add loop
\* and a commit was attempted when a file was staged.
AllPlansSettled ==
    /\ processed = [ i \in 1..NumPlans |-> i ]
    /\ \A i \in 1..NumPlans :
          /\ outcome[i] \in CommitOutcomes
                 \cup { "skipped-missing-directory", "skipped-nothing-staged" }
          /\ outcome[i] = "skipped-missing-directory"
                 <=> ~dir_exists[commit_plans[i].project]
          /\ dir_exists[commit_plans[i].project] =>
                /\ DOMAIN seen[i] = SeqToSet(commit_plans[i].all_files)
                /\ StagedSomething(i) => outcome[i] \in CommitOutcomes

\* C4: a live run always comes to its end, whatever directories and files are
\* missing and whatever git add or git commit fails, and at its end every plan
\* has been processed in list order and has reached one of the four outcomes.
C4_LiveRunSettlesEveryPlan ==
    /\ [](LiveRunning => <>LiveDone)
    /\ [](LiveDone => AllPlansSettled)

\* A finished live run with a plan in which one git add failed, another file
\* was staged and the commit failed, followed by a plan whose commit succeeded.
C4_Witness ==
    /\ LiveDone
    /\ \E j, l \in 1..NumPlans :
          /\ j < l
          /\ outcome[j] = "commit-failed"
          /\ outcome[l] = "commit-succeeded"
          /\ \E f, g \in DOMAIN seen[j] : seen[j][f] = "failed" /\ seen[j][g] = "staged"

\* C5: a dry run invokes no git add, no git diff, no git commit and creates
\* no temporary file, and the title and body it prints for a plan are the
\* title and body the live run renders for that plan and hands to git commit.
C5_DryRunIsInertAndRendersLiveMessages ==
    /\ dry_run =>
          /\ calls = NoCalls
          /\ tmp_files = {}
          /\ commits = <<>>
          /\ \A p \in DOMAIN index : index[p] = {}
    /\ \A i \in 1..NumPlans :
          preview[i] # <<>> =>
              /\ (~dry_run /\ idx = i /\ pc \in { "add", "mktemp", "commit", "cleanup" })
                     => message = preview[i]
              /\ passed[i] # <<>> => passed[i] = preview[i]

\* A live run after a dry run has handed git commit the message of a plan
\* whose title carries an [i/n] marker.
C5_Witness ==
    /\ LiveDone
    /\ \E i \in 1..NumPlans :
          /\ preview[i] # <<>>
          /\ passed[i] # <<>>
          /\ passed[i][1].title.marker # <<>>

C11_CommitHoldsOnlyFilesOfItsPlan ==
    \A k \in 1..Len(commits) :
        commits[k].files \subseteq SeqToSet(commit_plans[commits[k].plan].all_files)

\* ------------------------------------------------------------------------
\* Properties of the resolver and of the project map builder
\* ------------------------------------------------------------------------

\* The absolute location of a file of the ledger.
LocationOf(f) == Abspath(PathJoin(Abspath(RootDir), f))

\* The location is in the tree of the root directory: the components of the
\* root directory are the first components of the location.
InsideRoot(f) ==
    LET loc  == NormAcc[Split(LocationOf(f)), <<>>]
        root == NormAcc[Split(Abspath(RootDir)), <<>>]
    IN  /\ Len(root) <= Len(loc)
        /\ \A j \in 1..Len(root) : loc[j] = root[j]

\* The files the project map holds under some project and CR.
MappedFiles ==
    UNION { UNION { project_map.files[p][c] : c \in DOMAIN project_map.files[p] } :
            p \in DOMAIN project_map.files }

\* C8 as stated: a file whose location is not inside the root directory tree
\* resolves to no repository and is in no entry of the project map.
C8_OutsideRootHasNoRepository ==
    \A f \in DOMAIN resolved :
        ~InsideRoot(f) => resolved[f] = NoProject /\ f \notin MappedFiles

\* What the resolver returns for a file when its cache is empty.
FreshProject(f) == find_git_project_for_file(RootDir, f, <<>>, git_dirs).project

RecordsOf(c) == { k \in 1..Len(parsed) : parsed[k].cr_id = c }

FilesIn(p, c) ==
    IF p \in DOMAIN project_map.files /\ c \in DOMAIN project_map.files[p]
    THEN project_map.files[p][c] ELSE {}

\* C10: cr_info has one entry per CR identifier of the records, holding the
\* patch type, severity and descriptions of the first record with that
\* identifier; the files of a project of the project map under an identifier
\* are the files, of all records with that identifier, that resolve to the
\* project.
C10_FirstMetadataAndAllFiles ==
    pc = "mapped" =>
        /\ DOMAIN cr_info = { parsed[k].cr_id : k \in 1..Len(parsed) }
        /\ \A c \in DOMAIN cr_info :
              LET first == CHOOSE k \in RecordsOf(c) : \A m \in RecordsOf(c) : k <= m
                  files == UNION { SeqToSet(parsed[k].files) : k \in RecordsOf(c) }
              IN  /\ cr_info[c].patch_type = parsed[first].patch_type
                  /\ cr_info[c].severity = parsed[first].severity
                  /\ cr_info[c].description_first = parsed[first].description_first
                  /\ cr_info[c].description_full = parsed[first].description_full
                  /\ \A p \in DOMAIN project_map.files \cup { FreshProject(f) : f \in files } :
                        p # NoProject =>
                            FilesIn(p, c) = { f \in files : FreshProject(f) = p }
        /\ \A p \in DOMAIN project_map.files :
              DOMAIN project_map.files[p] \subseteq DOMAIN cr_info

\* Two records of one CR with different metadata whose files are in
\* different repositories.
C10_Witness ==
    /\ pc = "mapped"
    /\ Len(parsed) = 2
    /\ parsed[1].cr_id = parsed[2].cr_id
    /\ parsed[1].patch_type # parsed[2].patch_type
    /\ \E p, q \in DOMAIN project_map.files :
          /\ p # q
          /\ parsed[1].cr_id \in DOMAIN project_map.files[p]
          /\ parsed[1].cr_id \in DOMAIN project_map.files[q]
          /\ SeqToSet(parsed[1].files) \cap project_map.files[p][parsed[1].cr_id] # {}
          /\ SeqToSet(parsed[2].files) \cap project_map.files[q][parsed[1].cr_id] # {}
          /\ SeqToSet(parsed[1].files) \cap project_map.files[q][parsed[1].cr_id] = {}

\* ------------------------------------------------------------------------
\* Properties of the parser
\* ------------------------------------------------------------------------

SectionLabels == { BlockMarker, "CR ID:", "Severity:", "Description:", "Associated Files:" }

\* The lines of block b of the ledger: those after its marker line, up to
\* the next marker line.
BlockLines(b) == Tail(Fragments(content, 1, 0, <<>>)[b + 1].lines)

NumBlocks == Len(Fragments(content, 1, 0, <<>>)) - 1

\* The lines of a block before its Description or Associated Files section.
HeaderOf(lines) ==
    LET ends == { j \in 1..Len(lines) :
                    IsLabel(lines[j], "Description:") \/ IsLabel(lines[j], "Associated Files:") }
    IN  IF ends = {} THEN lines
        ELSE SubSeq(lines, 1, (CHOOSE j \in ends : \A m \in ends : j <= m) - 1)

\* Line i of the header is a CR ID label with a value: on the same line, or
\* on the first non-blank line that follows, which then is no label line.
HasCrIdValue(header, i) ==
    /\ IsLabel(header[i], "CR ID:")
    /\ \/ Len(header[i]) > 1
       \/ /\ NextNonBlank(header, i) # <<>>
          /\ NextNonBlank(header, i)[1] \notin SectionLabels

\* The CR ID of the block can be determined.
Determinable(b) ==
    \E i \in 1..Len(HeaderOf(BlockLines(b))) : HasCrIdValue(HeaderOf(BlockLines(b)), i)

\* C9 as stated: the records are in ledger order, one for every block whose
\* CR ID can be determined and none for a block with no CR ID label or with
\* a CR ID label that has no value.
C9_OneRecordPerDeterminableBlock ==
    /\ \A k \in 1..Len(origin) : Determinable(origin[k])
    /\ \A k, m \in 1..Len(origin) : k < m => origin[k] < origin[m]
    /\ pc = "parsed" =>
          { origin[k] : k \in 1..Len(origin) } = { b \in 1..NumBlocks : Determinable(b) }

====
